---------------------------- MODULE Spec2Model ----------------------------
(***************************************************************************)
(* Model of lib/rokudebug/DebuggerRequest.py: the outbound requests of the *)
(* Roku remote debugger and the way each one writes itself through the     *)
(* debugger client (the primitive-value codec).                            *)
(*                                                                         *)
(* Python values are tagged records [type, val] so that None, bool, int    *)
(* and enum members stay distinguishable, as isinstance() and == see them. *)
(* A string is the sequence of its code points.                            *)
(***************************************************************************)
EXTENDS Integers, Sequences, FiniteSets, TLC

----------------------------------------------------------------------------
(* Bounds of the model *)

\* Largest number of send() calls started on the connection.
MaxSends == 2
\* Longest variable path the caller builds.
MaxPathLen == 2
\* Number of callers that hold a request and may send it.
NumCallers == 2

----------------------------------------------------------------------------
(* Module constants *)

UINT8_SIZE == 1
UINT32_SIZE == 4
NO_PARAMS_REQUEST_SIZE == 3 * UINT32_SIZE

CmdCode ==
    ("STOP" :> 1) @@ ("CONTINUE" :> 2) @@ ("THREADS" :> 3) @@
    ("STACKTRACE" :> 4) @@ ("VARIABLES" :> 5) @@ ("STEP" :> 6) @@
    ("EXIT_CHANNEL" :> 122)

StepType == ("NONE" :> 0) @@ ("LINE" :> 1) @@ ("OUT" :> 2) @@ ("OVER" :> 3)

GET_CHILD_KEYS == 1

----------------------------------------------------------------------------
(* Python values *)

PyNone == [type |-> "NoneType", val |-> 0]
PyInt(n) == [type |-> "int", val |-> n]
PyBool(b) == [type |-> "bool", val |-> IF b THEN 1 ELSE 0]
PyStepType(v) == [type |-> "StepType", val |-> v]
\* An attribute the object does not have.
Absent == [type |-> "absent", val |-> 0]

\* x == y for the values above: bool and IntEnum are ints, None equals only None.
PyEq(x, y) ==
    IF x.type = "NoneType" \/ y.type = "NoneType"
    THEN x.type = y.type
    ELSE x.val = y.val

\* bool(x)
Truthy(x) == x.type # "NoneType" /\ x.val # 0

\* isinstance(x, StepType)
IsStepType(x) == x.type = "StepType"

\* flags | bit, for the one-bit flag values the request uses
BitOr(flags, bit) == IF (flags \div bit) % 2 = 1 THEN flags ELSE flags + bit

\* Number of bytes of one code point in UTF-8.
Utf8Len(cp) ==
    IF cp < 128 THEN 1 ELSE IF cp < 2048 THEN 2 ELSE IF cp < 65536 THEN 3 ELSE 4

RECURSIVE EncodedLen(_)
\* len(s.encode('utf-8'))
EncodedLen(s) == IF s = <<>> THEN 0 ELSE Utf8Len(Head(s)) + EncodedLen(Tail(s))

----------------------------------------------------------------------------
(* Inputs *)

\* "a" and a string of a 2-byte, a 3-byte and a 4-byte character.
Segments == { <<97>>, <<233, 8364, 128512>> }

RECURSIVE SeqsUpTo(_, _)
SeqsUpTo(S, n) ==
    IF n = 0 THEN { <<>> }
    ELSE LET shorter == SeqsUpTo(S, n - 1)
         IN  shorter \cup { Append(p, x) : p \in shorter, x \in S }

Paths == SeqsUpTo(Segments, MaxPathLen)

\* The variable_path argument: None, or a list the caller built.
PathInputs ==
    { [none |-> TRUE, items |-> <<>>] } \cup
    { [none |-> FALSE, items |-> p] : p \in Paths }

IndexInputs == { PyInt(-1), PyInt(2) }
StackIndexInputs == { PyInt(-1), PyInt(1), PyNone }
StepTypeInputs ==
    { PyStepType(StepType["NONE"]), PyStepType(StepType["LINE"]),
      PyStepType(StepType["OUT"]), PyStepType(StepType["OVER"]),
      PyInt(1), PyInt(7), PyNone }
ChildKeysInputs == { PyBool(TRUE), PyBool(FALSE), PyInt(2) }
CallerDataInputs == { PyNone }

Callers == 1 .. NumCallers
\* The caller of the sequential specification.
MainCaller == CHOOSE c \in Callers : \A d \in Callers : c <= d

----------------------------------------------------------------------------
(* Request objects *)

NoParamsClasses == { "Stop", "Continue", "Threads", "ExitChannel" }

\* self.__variable_path: whether it is the caller's list object, what it
\* holds, and (bookkeeping) whether the caller has changed it since the
\* constructor ran.
NoList == [aliased |-> FALSE, items |-> <<>>, changed |-> FALSE]

NoObject ==
    [cls |-> "none", cmd_code |-> 0, request_id |-> Absent,
     caller_data |-> Absent, request_size |-> Absent, thread_index |-> Absent,
     stack_index |-> Absent, step_type |-> Absent, get_child_keys |-> Absent,
     variable_path |-> NoList]

BaseAttrs == { "_debug", "cmd_code", "request_id", "caller_data" }

\* DebuggerRequest.__init__
DebuggerRequest__init__(cls, cmdCode, caller_data) ==
    [NoObject EXCEPT !.cls = cls, !.cmd_code = cmdCode,
                     !.request_id = PyNone, !.caller_data = caller_data]

\* The result of a constructor call: whether it raised, the attributes it had
\* set on the object by then, and the object (which the caller gets only when
\* the call did not raise).
Built(obj, attrs) == [raised |-> FALSE, attrs |-> attrs, obj |-> obj]
Rejected(obj, attrs) == [raised |-> TRUE, attrs |-> attrs, obj |-> obj]

Stop__init__ ==
    Built(DebuggerRequest__init__("Stop", CmdCode["STOP"], PyNone), BaseAttrs)

Continue__init__ ==
    Built(DebuggerRequest__init__("Continue", CmdCode["CONTINUE"], PyBool(FALSE)),
          BaseAttrs)

ExitChannel__init__ ==
    Built(DebuggerRequest__init__("ExitChannel", CmdCode["EXIT_CHANNEL"],
                                  PyBool(FALSE)),
          BaseAttrs)

Threads__init__(caller_data) ==
    Built(DebuggerRequest__init__("Threads", CmdCode["THREADS"], caller_data),
          BaseAttrs)

Stacktrace__init__(thread_index, caller_data) ==
    LET base == DebuggerRequest__init__("Stacktrace", CmdCode["STACKTRACE"],
                                        caller_data)
    IN  Built([base EXCEPT
                  !.request_size = PyInt(NO_PARAMS_REQUEST_SIZE + UINT32_SIZE),
                  !.thread_index = thread_index],
              BaseAttrs \cup { "_request_size", "thread_index" })

\* The constructor checking the step type after the base class initialiser.
Step__init__CheckedLate(thread_index, step_type) ==
    LET base == DebuggerRequest__init__("Step", CmdCode["STEP"], PyNone)
    IN  IF ~IsStepType(step_type)
        THEN Rejected(base, BaseAttrs)
        ELSE Built([base EXCEPT
                       !.thread_index = thread_index,
                       !.step_type = step_type,
                       !.request_size =
                           PyInt(NO_PARAMS_REQUEST_SIZE + UINT32_SIZE
                                 + UINT8_SIZE)],
                   BaseAttrs \cup
                       { "__thread_index", "__step_type", "_request_size" })

Step__init__(thread_index, step_type) ==
    IF ~IsStepType(step_type)
    THEN Rejected(NoObject, {})
    ELSE LET base == DebuggerRequest__init__("Step", CmdCode["STEP"], PyNone)
         IN  Built([base EXCEPT
                       !.thread_index = thread_index,
                       !.step_type = step_type,
                       !.request_size =
                           PyInt(NO_PARAMS_REQUEST_SIZE + UINT32_SIZE
                                 + UINT8_SIZE)],
                   BaseAttrs \cup
                       { "__thread_index", "__step_type", "_request_size" })

RECURSIVE PathSizeChars(_, _)
\* The loop counting characters, len(elem) + 1, instead of encoded bytes.
PathSizeChars(request_size, path) ==
    IF path = <<>> THEN request_size
    ELSE PathSizeChars(request_size + Len(Head(path)) + 1, Tail(path))

RECURSIVE PathSize(_, _)
\* The loop of lines 237-239: request_size += len(elem.encode('utf-8')) + 1
PathSize(request_size, path) ==
    IF path = <<>> THEN request_size
    ELSE PathSize(request_size + EncodedLen(Head(path)) + 1, Tail(path))

\* assert (index != None) and (int(index) >= 0)
IndexAccepted(index) == ~PyEq(index, PyNone) /\ index.val >= 0

Variables__init__(thread_index, stack_index, variable_path, get_child_keys, caller_data) ==
    LET base == DebuggerRequest__init__("Variables", CmdCode["VARIABLES"],
                                        caller_data)
        \* if not variable_path: a fresh [] of the request's own; otherwise
        \* the caller's list object itself
        kept == IF variable_path.none \/ variable_path.items = <<>>
                THEN [aliased |-> FALSE, items |-> <<>>, changed |-> FALSE]
                ELSE [aliased |-> TRUE, items |-> variable_path.items,
                      changed |-> FALSE]
        request_size ==
            PathSize(NO_PARAMS_REQUEST_SIZE + UINT8_SIZE + (3 * UINT32_SIZE),
                     kept.items)
    IN  IF ~IndexAccepted(thread_index)
           \/ ~IndexAccepted(stack_index)
           \/ ~(PyEq(get_child_keys, PyBool(TRUE))
                \/ PyEq(get_child_keys, PyBool(FALSE)))
           \/ ~(variable_path.none \/ Len(variable_path.items) >= 0)
        THEN Rejected(base, BaseAttrs)
        ELSE Built([base EXCEPT
                       !.get_child_keys = get_child_keys,
                       !.thread_index = thread_index,
                       !.stack_index = stack_index,
                       !.variable_path = kept,
                       !.request_size = PyInt(request_size)],
                   BaseAttrs \cup
                       { "__get_child_keys", "thread_index", "stack_index",
                         "__variable_path", "_request_size" })

----------------------------------------------------------------------------
(* The debugger client, as the requests use it.  It is not part of this    *)
(* file: each write appends one chunk to the outbound stream and returns   *)
(* the number of bytes it wrote; delta is how far that number is from the  *)
(* width of the field (0 for a client that writes every field in full).    *)

\* at names the field of the request the chunk carries and send the send()
\* call that wrote it, by the identifier that call allocated; both are
\* bookkeeping, not bytes.
Chunk(kind, val, str, n) == [kind |-> kind, val |-> val, str |-> str, n |-> n, at |-> "", send |-> 0]

send_uint(value, delta) == Chunk("uint", value, <<>>, 4 + delta)
send_byte(value, delta) == Chunk("byte", value, <<>>, 1 + delta)
\* The encoded string and its terminator byte.
send_str(s, delta) == Chunk("str", 0, s, EncodedLen(s) + 1 + delta)

\* get_next_request_id(): the identifier returned, and the counter after it.
get_next_request_id(counter) == [id |-> counter, counter |-> counter + 1]

FirstRequestId == 1

\* The writes of one send() that may report a wrong count: the three header
\* fields and the first payload field.
HeaderPositions == 1 .. (NO_PARAMS_REQUEST_SIZE \div UINT32_SIZE)
FaultPositions == 1 .. (Cardinality(HeaderPositions) + 1)

NoFaults == [k \in FaultPositions |-> 0]

\* What the client may report in one send(): every count right; one count
\* off by one; or two header counts off in opposite directions, so that the
\* header's sum is right although its parts are not.
FaultPlans ==
    { NoFaults } \cup
    { [NoFaults EXCEPT ![k] = d] : k \in FaultPositions, d \in {-1, 1} } \cup
    { [NoFaults EXCEPT ![jk[1]] = 1, ![jk[2]] = -1] :
        jk \in { p \in HeaderPositions \X HeaderPositions : p[1] # p[2] } }

DeltaAt(plan, k) == IF k \in DOMAIN plan THEN plan[k] ELSE 0

----------------------------------------------------------------------------
(* send(): one activation of a request's send method.  pc is the next      *)
(* codec call; the two ends are "returned" and "raised" (AssertionError).   *)

\* count and i are the locals of lines 108 and 261; writes counts the codec
\* writes made so far and id is the identifier the call allocated.
IdleFrame == [pc |-> "idle", count |-> 0, i |-> 0, writes |-> 0, id |-> 0]

ActivePcs ==
    { "get_id", "hdr_size", "hdr_id", "hdr_cmd", "st_thread", "step_thread",
      "step_type", "var_flags", "var_thread", "var_stack", "var_len",
      "var_elem" }

\* A check that only catches a short write.
verify_num_written_short(expected, actual) == actual >= expected

\* DebuggerRequest.__verify_num_written
verify_num_written(expected, actual) == expected = actual

\* A Step request sent as the no-parameter request it inherits from.
PacketSizeInherited(obj) ==
    IF obj.cls \in NoParamsClasses \cup { "Step" } THEN NO_PARAMS_REQUEST_SIZE
    ELSE obj.request_size.val

\* The packet_size each send() hands to _send_base_fields.
PacketSize(obj) ==
    IF obj.cls \in NoParamsClasses THEN NO_PARAMS_REQUEST_SIZE
    ELSE obj.request_size.val

\* Where send() goes on once _send_base_fields has returned.
AfterHeader(obj) ==
    CASE obj.cls \in NoParamsClasses -> "returned"
      [] obj.cls = "Stacktrace" -> "st_thread"
      [] obj.cls = "Step" -> "step_thread"
      [] obj.cls = "Variables" -> "var_flags"

\* flags of DebuggerRequest_Variables.send
VariablesFlags(obj) ==
    IF Truthy(obj.get_child_keys) THEN BitOr(0, GET_CHILD_KEYS) ELSE 0

\* for elem in self.__variable_path: the next element, or the end of send()
LoopPc(path, i) == IF i <= Len(path) THEN "var_elem" ELSE "returned"

\* The codec call written at the place pc of send(), as the chunk it
\* appends; i is the loop's position in the path.
CallAt(obj, pc, i, delta) ==
    LET path == obj.variable_path.items
    IN  CASE pc = "hdr_size" -> send_uint(PacketSize(obj), delta)
          [] pc = "hdr_id" -> send_uint(obj.request_id.val, delta)
          [] pc = "hdr_cmd" -> send_uint(obj.cmd_code, delta)
          [] pc = "st_thread" -> send_uint(obj.thread_index.val, delta)
          [] pc = "step_thread" -> send_uint(obj.thread_index.val, delta)
          [] pc = "step_type" -> send_byte(obj.step_type.val, delta)
          [] pc = "var_flags" -> send_byte(VariablesFlags(obj), delta)
          [] pc = "var_thread" -> send_uint(obj.thread_index.val, delta)
          [] pc = "var_stack" -> send_uint(obj.stack_index.val, delta)
          [] pc = "var_len" -> send_uint(Len(path), delta)
          [] pc = "var_elem" -> send_str(path[i], delta)

\* The Variables payload with the stack index written before the thread index.
WriteAtSwapped(obj, f, delta) ==
    CallAt(obj,
           CASE f.pc = "var_thread" -> "var_stack"
             [] f.pc = "var_stack" -> "var_thread"
             [] OTHER -> f.pc,
           f.i, delta)

\* The codec call the activation f makes next.
WriteAt(obj, f, delta) == CallAt(obj, f.pc, f.i, delta)

\* The frame after the write at pc returned n.
FrameAfter(obj, f, n) ==
    LET path == obj.variable_path.items
        count == f.count + n
        g == [f EXCEPT !.writes = f.writes + 1]
    IN  CASE f.pc = "hdr_size" -> [g EXCEPT !.pc = "hdr_id", !.count = count]
          [] f.pc = "hdr_id" -> [g EXCEPT !.pc = "hdr_cmd", !.count = count]
          [] f.pc = "hdr_cmd" ->
                [g EXCEPT !.count = count,
                          !.pc = IF verify_num_written(NO_PARAMS_REQUEST_SIZE,
                                                       count)
                                 THEN AfterHeader(obj) ELSE "raised"]
          [] f.pc = "st_thread" -> [g EXCEPT !.pc = "returned"]
          [] f.pc = "step_thread" -> [g EXCEPT !.pc = "step_type"]
          [] f.pc = "step_type" -> [g EXCEPT !.pc = "returned"]
          [] f.pc = "var_flags" -> [g EXCEPT !.pc = "var_thread"]
          [] f.pc = "var_thread" -> [g EXCEPT !.pc = "var_stack"]
          [] f.pc = "var_stack" -> [g EXCEPT !.pc = "var_len"]
          [] f.pc = "var_len" -> [g EXCEPT !.pc = LoopPc(path, 1), !.i = 1]
          [] f.pc = "var_elem" ->
                [g EXCEPT !.pc = LoopPc(path, f.i + 1), !.i = f.i + 1]

\* send() allocating an identifier only for a request that has none yet.
SendStepKeepId(m, plan) ==
    IF m.frame.pc = "get_id"
    THEN IF m.obj.request_id = PyNone
         THEN LET got == get_next_request_id(m.counter)
              IN  [m EXCEPT !.obj.request_id = PyInt(got.id),
                            !.counter = got.counter,
                            !.frame = [m.frame EXCEPT !.pc = "hdr_size",
                                                      !.count = 0,
                                                      !.id = got.id]]
         ELSE [m EXCEPT !.counter = m.counter + 1,
                        !.frame = [m.frame EXCEPT !.pc = "hdr_size",
                                                  !.count = 0,
                                                  !.id = m.obj.request_id.val]]
    ELSE LET chunk == WriteAt(m.obj, m.frame,
                              DeltaAt(plan, m.frame.writes + 1))
         IN  [m EXCEPT !.out = Append(m.out, [chunk EXCEPT !.at = m.frame.pc,
                                                            !.send = m.frame.id]),
                       !.frame = FrameAfter(m.obj, m.frame, chunk.n)]

\* One step of send() on the machine
\*   m = [obj, frame, counter, out]
\* (the request, the activation, the client's identifier counter and the
\* chunks appended so far).
SendStep(m, plan) ==
    IF m.frame.pc = "get_id"
    THEN LET got == get_next_request_id(m.counter)
         IN  [m EXCEPT !.obj.request_id = PyInt(got.id),
                       !.counter = got.counter,
                       !.frame = [m.frame EXCEPT !.pc = "hdr_size",
                                                 !.count = 0,
                                                 !.id = got.id]]
    ELSE LET chunk == WriteAt(m.obj, m.frame,
                              DeltaAt(plan, m.frame.writes + 1))
         IN  [m EXCEPT !.out = Append(m.out, [chunk EXCEPT !.at = m.frame.pc,
                                                            !.send = m.frame.id]),
                       !.frame = FrameAfter(m.obj, m.frame, chunk.n)]

RECURSIVE RunSend(_, _)
\* send() run to its end.
RunSend(m, plan) ==
    IF m.frame.pc \in ActivePcs THEN RunSend(SendStep(m, plan), plan)
    ELSE m

----------------------------------------------------------------------------
(* State *)

VARIABLES
    requests,         \* the request object each caller holds (NoObject: none yet)
    next_request_id,  \* the debugger client's identifier counter
    stream,           \* the chunks appended to the outbound stream since the
                      \* connection was last quiescent, that is, by the latest
                      \* operation or by the sends now in progress
    header_ids,       \* the request identifiers written in headers, over
                      \* the whole life of the connection, in stream order
    frames,           \* each caller's send() activation; after the call, how
                      \* it ended, until the caller's next operation
    construction      \* the latest constructor call and how it ended, while
                      \* it is the latest operation

vars == <<requests, next_request_id, stream, header_ids, frames, construction>>

NoConstruction ==
    [cls |-> "none", raised |-> FALSE, attrs |-> {}, thread_index |-> Absent,
     step_type |-> Absent, path_none |-> FALSE]

Init ==
    /\ requests = [c \in Callers |-> NoObject]
    /\ next_request_id = FirstRequestId
    /\ stream = <<>>
    /\ header_ids = <<>>
    /\ frames = [c \in Callers |-> IdleFrame]
    /\ construction = NoConstruction

Quiescent == \A c \in Callers : frames[c].pc \notin ActivePcs

RECURSIVE IdsIn(_)
\* The identifiers among the chunks: those written as the header's second field.
IdsIn(chunks) ==
    IF chunks = <<>> THEN <<>>
    ELSE (IF Head(chunks).at = "hdr_id" THEN <<Head(chunks).val>> ELSE <<>>)
         \o IdsIn(Tail(chunks))

----------------------------------------------------------------------------
(* The caller's operations, each one whole *)

\* The caller's side of a constructor call that ended as res.
Constructed(c, cls, res, thread_index, step_type, path_none) ==
    /\ requests' = IF res.raised THEN requests
                   ELSE [requests EXCEPT ![c] = res.obj]
    /\ construction' =
           [cls |-> cls, raised |-> res.raised, attrs |-> res.attrs,
            thread_index |-> thread_index, step_type |-> step_type,
            path_none |-> path_none]
    /\ frames' = [frames EXCEPT ![c] = IdleFrame]
    /\ stream' = <<>>
    /\ UNCHANGED <<next_request_id, header_ids>>

ConstructStop(c) ==
    /\ Quiescent
    /\ Constructed(c, "Stop", Stop__init__, Absent, Absent, FALSE)

ConstructContinue(c) ==
    /\ Quiescent
    /\ Constructed(c, "Continue", Continue__init__, Absent, Absent, FALSE)

ConstructExitChannel(c) ==
    /\ Quiescent
    /\ Constructed(c, "ExitChannel", ExitChannel__init__, Absent, Absent, FALSE)

ConstructThreads(c) ==
    /\ Quiescent
    /\ \E cd \in CallerDataInputs :
           Constructed(c, "Threads", Threads__init__(cd), Absent, Absent, FALSE)

ConstructStacktrace(c) ==
    /\ Quiescent
    /\ \E ti \in IndexInputs, cd \in CallerDataInputs :
           Constructed(c, "Stacktrace", Stacktrace__init__(ti, cd), ti, Absent, FALSE)

\* The argument pairs of the Step constructor that are tried.  A call that
\* is rejected ends the same whatever the thread index, so those are tried
\* with one thread index only.
StepArgs ==
    { a \in IndexInputs \X StepTypeInputs :
        a[1].val < 0 => IsStepType(a[2]) }

ConstructStep(c) ==
    /\ Quiescent
    /\ \E a \in StepArgs :
           Constructed(c, "Step", Step__init__(a[1], a[2]), a[1], a[2], FALSE)

\* The argument tuples of the Variables constructor that are tried.  A call
\* that is rejected ends the same whatever the path holds, so those are
\* tried with no path and with the empty list only.
VariablesArgs ==
    { a \in IndexInputs \X StackIndexInputs \X PathInputs \X ChildKeysInputs \X CallerDataInputs :
        a[3].items # <<>> => ~Variables__init__(a[1], a[2], a[3], a[4], a[5]).raised }

ConstructVariables(c) ==
    /\ Quiescent
    /\ \E a \in VariablesArgs :
           Constructed(c, "Variables", Variables__init__(a[1], a[2], a[3], a[4], a[5]), a[1], Absent, a[3].none)

\* The caller changes the list it passed as variable_path, which the request
\* holds by reference (line 229).
MutatePath(c) ==
    /\ Quiescent
    /\ requests[c].cls = "Variables"
    /\ requests[c].variable_path.aliased
    /\ \E p \in Paths \ { requests[c].variable_path.items } :
           requests' = [requests EXCEPT ![c].variable_path.items = p,
                                        ![c].variable_path.changed = TRUE]
    /\ frames' = [frames EXCEPT ![c] = IdleFrame]
    /\ construction' = NoConstruction
    /\ stream' = <<>>
    /\ UNCHANGED <<next_request_id, header_ids>>

\* request.send(debugger_client), from its first line to its return or raise.
Send(c) ==
    /\ Quiescent
    /\ requests[c].cls # "none"
    /\ next_request_id - FirstRequestId < MaxSends
    /\ \E plan \in FaultPlans :
         LET m == RunSend([obj |-> requests[c],
                           frame |-> [IdleFrame EXCEPT !.pc = "get_id"],
                           counter |-> next_request_id,
                           out |-> <<>>], plan)
         IN  /\ requests' = [requests EXCEPT ![c] = m.obj]
             /\ frames' = [frames EXCEPT ![c] = m.frame]
             /\ next_request_id' = m.counter
             /\ stream' = m.out
             /\ header_ids' = header_ids \o IdsIn(m.out)
    /\ construction' = NoConstruction

Next ==
    \/ ConstructStop(MainCaller)
    \/ ConstructContinue(MainCaller)
    \/ ConstructExitChannel(MainCaller)
    \/ ConstructThreads(MainCaller)
    \/ ConstructStacktrace(MainCaller)
    \/ ConstructStep(MainCaller)
    \/ ConstructVariables(MainCaller)
    \/ MutatePath(MainCaller)
    \/ Send(MainCaller)

Spec == Init /\ [][Next]_vars

----------------------------------------------------------------------------
(* Several callers sending through one client, one codec call at a time *)

\* The requests the callers of the concurrent specification hold.
ConcObjects ==
    { Stop__init__.obj,
      Stacktrace__init__(PyInt(2), PyNone).obj,
      Variables__init__(PyInt(2), PyInt(1), [none |-> TRUE, items |-> <<>>], PyBool(TRUE), PyNone).obj }

InitConc ==
    /\ requests \in [Callers -> ConcObjects]
    /\ next_request_id = FirstRequestId
    /\ stream = <<>>
    /\ header_ids = <<>>
    /\ frames = [c \in Callers |-> IdleFrame]
    /\ construction = NoConstruction

\* Caller c enters send().
BeginSend(c) ==
    /\ frames[c].pc \notin ActivePcs
    /\ requests[c].cls # "none"
    /\ next_request_id - FirstRequestId < MaxSends
    /\ frames' = [frames EXCEPT ![c] = [IdleFrame EXCEPT !.pc = "get_id"]]
    /\ stream' = IF Quiescent THEN <<>> ELSE stream
    /\ UNCHANGED <<requests, next_request_id, header_ids, construction>>

\* Caller c makes the next codec call of its send().
StepSend(c) ==
    /\ frames[c].pc \in ActivePcs
    /\ LET m == SendStep([obj |-> requests[c], frame |-> frames[c],
                          counter |-> next_request_id, out |-> stream],
                         NoFaults)
       IN  /\ requests' = [requests EXCEPT ![c] = m.obj]
           /\ frames' = [frames EXCEPT ![c] = m.frame]
           /\ next_request_id' = m.counter
           /\ stream' = m.out
           /\ header_ids' = header_ids \o IdsIn(SubSeq(m.out, Len(stream) + 1, Len(m.out)))
    /\ UNCHANGED construction

NextConc == \E c \in Callers : BeginSend(c) \/ StepSend(c)

SpecConc == InitConc /\ [][NextConc]_vars

----------------------------------------------------------------------------
(* What the properties below read off the state *)

Terminal == { "returned", "raised" }

\* Caller c's latest operation was a send(), which has ended: stream holds
\* exactly what that call appended.
SendEnded(c) == Quiescent /\ frames[c].pc \in Terminal

RECURSIVE BytesIn(_)
\* The number of bytes of the chunks.
BytesIn(chunks) ==
    IF chunks = <<>> THEN 0 ELSE Head(chunks).n + BytesIn(Tail(chunks))

\* The width of a field on the wire: 4 bytes for a uint, 1 for a byte, the
\* UTF-8 length and a terminator for a string.
Width(chunk) ==
    CASE chunk.kind = "uint" -> 4
      [] chunk.kind = "byte" -> 1
      [] chunk.kind = "str" -> EncodedLen(chunk.str) + 1

\* Every write of the latest send() wrote its field in full.
ExactCodec == \A k \in DOMAIN stream : stream[k].n = Width(stream[k])

\* The value passed as packet size in the first header write.
DeclaredSize == stream[1].val

\* The request is as its constructor was given it: indices that are not
\* negative, and a path list nobody has changed since.
AsConstructed(obj) ==
    /\ obj.thread_index.type = "int" => obj.thread_index.val >= 0
    /\ ~obj.variable_path.changed

\* The codec calls of the chunks, as (kind, value) pairs.
Calls(chunks) ==
    [k \in DOMAIN chunks |->
        IF chunks[k].kind = "str" THEN <<"str", chunks[k].str>>
        ELSE <<chunks[k].kind, chunks[k].val>>]

\* The wire layout of a request, as the codec calls that write it.
Header(obj) ==
    << <<"uint", PacketSize(obj)>>, <<"uint", obj.request_id.val>>, <<"uint", obj.cmd_code>> >>

Payload(obj) ==
    CASE obj.cls \in NoParamsClasses -> <<>>
      [] obj.cls = "Stacktrace" -> << <<"uint", obj.thread_index.val>> >>
      [] obj.cls = "Step" ->
            << <<"uint", obj.thread_index.val>>, <<"byte", obj.step_type.val>> >>
      [] obj.cls = "Variables" ->
            << <<"byte", IF PyEq(obj.get_child_keys, PyBool(TRUE)) THEN 1 ELSE 0>>,
               <<"uint", obj.thread_index.val>>,
               <<"uint", obj.stack_index.val>>,
               <<"uint", Len(obj.variable_path.items)>> >>
            \o [k \in DOMAIN obj.variable_path.items |->
                   <<"str", obj.variable_path.items[k]>>]

\* Sum over the segments of (UTF-8 encoded byte length + 1).
SegmentBytes(path) ==
    LET partial[k \in 0 .. Len(path)] ==
            IF k = 0 THEN 0 ELSE partial[k - 1] + EncodedLen(path[k]) + 1
    IN  partial[Len(path)]

\* A step that leaves caller c with the object it held.
KeepsObject == construction'.cls = "none" \/ construction'.raised

----------------------------------------------------------------------------
(* Properties *)

\* C1: for every variant and every valid constructor input, with a codec
\* that writes every field in full, the packet size passed in the first
\* header write of send() equals the number of bytes send() appends to the
\* stream, the 12 header bytes included.
C1_DeclaredSizeIsBytesSent ==
    \A c \in Callers :
        (SendEnded(c) /\ ExactCodec /\ AsConstructed(requests[c]))
            => /\ frames[c].pc = "returned"
               /\ DeclaredSize = BytesIn(stream)

\* A Variables request with a two-segment path, one of them multi-byte, has
\* been sent whole through an exact codec.
C1_Witness ==
    \E c \in Callers :
        /\ SendEnded(c) /\ ExactCodec /\ AsConstructed(requests[c])
        /\ requests[c].cls = "Variables"
        /\ requests[c].variable_path.items = << <<233, 8364, 128512>>, <<97>> >>
        /\ BytesIn(stream) = 37

\* C2: constructing a Variables or a Stacktrace request with a negative
\* thread index is rejected at construction: the call raises, and nothing
\* is written and no identifier allocated for it.
C2_NegativeThreadIndexRejected ==
    (/\ construction.cls \in { "Variables", "Stacktrace" }
     /\ construction.thread_index.type = "int"
     /\ construction.thread_index.val < 0)
        => construction.raised /\ stream = <<>>

\* C3: the request identifiers written in the headers of any sequence of
\* sends are pairwise distinct and in increasing order.
C3_HeaderIdsIncrease ==
    \A j, k \in DOMAIN header_ids : j < k => header_ids[j] < header_ids[k]

\* Two sends have written their headers, the later one a Stacktrace request.
C3_Witness ==
    /\ Len(header_ids) >= 2
    /\ \E c \in Callers : SendEnded(c) /\ requests[c].cls = "Stacktrace"

\* C4, as stated: the size a Variables request computes at construction is
\* 12 + 9 + the sum over the path segments of (UTF-8 length + 1), for the
\* empty list and a missing path too.
C4_VariablesSizeAsStated ==
    \A c \in Callers :
        (construction.cls = "Variables" /\ ~construction.raised
         /\ requests[c].cls = "Variables")
            => requests[c].request_size.val =
                   12 + 9 + SegmentBytes(requests[c].variable_path.items)

\* C4, amended: the size a Variables request computes at construction is
\* 12 + 13 + the sum over the path segments of (UTF-8 length + 1): the
\* payload before the segments is a flags byte and three 4-byte integers.
C4_VariablesSize ==
    \A c \in Callers :
        (construction.cls = "Variables" /\ ~construction.raised
         /\ requests[c].cls = "Variables")
            => /\ requests[c].request_size.val =
                      12 + 13 + SegmentBytes(requests[c].variable_path.items)
               /\ construction.path_none => requests[c].request_size.val = 12 + 13

\* A Variables request was built from a path of an ASCII and a multi-byte
\* segment.
C4_Witness ==
    \E c \in Callers :
        /\ construction.cls = "Variables" /\ ~construction.raised
        /\ requests[c].variable_path.items = << <<97>>, <<233, 8364, 128512>> >>
        /\ requests[c].request_size.val = 37

\* C5: a request's identifier is unset until its first send(), is then taken
\* from the codec's counter, and once set never changes again, a second
\* send() of the same object included.
C5_IdAssignedOnce ==
    [][\A c \in Callers :
          KeepsObject =>
            /\ (requests[c].request_id = PyNone /\ next_request_id' = next_request_id)
                  => requests'[c].request_id = PyNone
            /\ (requests[c].request_id = PyNone /\ requests'[c].request_id # PyNone)
                  => requests'[c].request_id = PyInt(next_request_id)
            /\ (requests[c].request_id.type = "int")
                  => requests'[c].request_id = requests[c].request_id]_vars

\* C6: whenever the bytes send() wrote differ from the size its header
\* declared, send() has aborted with the internal error.  Stated for a
\* client that writes every field in full, where the difference can only
\* come from the request itself (its path list changed since construction).
C6_MismatchAborts ==
    \A c \in Callers :
        (SendEnded(c) /\ ExactCodec /\ BytesIn(stream) # DeclaredSize)
            => frames[c].pc = "raised"

\* C7: constructing a Step request with a step kind that is no StepType is
\* rejected before any attribute of the request is set, with no codec write
\* and no identifier allocated.
C7_BadStepTypeRejected ==
    [][(construction'.cls = "Step" /\ ~IsStepType(construction'.step_type))
          => /\ construction'.raised
             /\ construction'.attrs = {}
             /\ requests' = requests
             /\ stream' = <<>>
             /\ next_request_id' = next_request_id
             /\ header_ids' = header_ids]_vars

\* A Step construction with the integer 1 (no StepType, though equal to
\* StepType.LINE) has been rejected.
C7_Witness ==
    /\ construction.cls = "Step"
    /\ construction.step_type = PyInt(1)
    /\ construction.raised

\* C8: with several callers sending through one client, the outbound stream
\* is a concatenation of whole, contiguous requests, and no two requests
\* carry the same identifier.
C8_SendsAtomic ==
    /\ \A i, j, k \in DOMAIN stream :
          (i < j /\ j < k /\ stream[i].send = stream[k].send)
              => stream[j].send = stream[i].send
    /\ \A j, k \in DOMAIN header_ids : j # k => header_ids[j] # header_ids[k]

\* C9: the codec writes of one send() are the wire layout in order: packet
\* size, request id, command code, then the payload of the variant, and
\* nothing else; a send() that aborts has written the header only.
C9_WireLayout ==
    \A c \in Callers :
        SendEnded(c) =>
            Calls(stream) =
                IF frames[c].pc = "returned"
                THEN Header(requests[c]) \o Payload(requests[c])
                ELSE Header(requests[c])

\* A Variables request asking for child keys, with thread index 2, stack
\* index 1 and a two-segment path, has been sent.
C9_Witness ==
    \E c \in Callers :
        /\ SendEnded(c) /\ frames[c].pc = "returned"
        /\ requests[c].cls = "Variables"
        /\ PyEq(requests[c].get_child_keys, PyBool(TRUE))
        /\ Len(requests[c].variable_path.items) = 2
        /\ Len(stream) = 9

\* C10: if the counts reported for the three header writes do not sum to
\* 12, send() raises and writes no payload field; if they do, the header
\* routine has returned 12 with the request identifier set.
C10_HeaderCountVerified ==
    \A c \in Callers :
        SendEnded(c) =>
            LET reported == stream[1].n + stream[2].n + stream[3].n
            IN  /\ reported # NO_PARAMS_REQUEST_SIZE
                      => frames[c].pc = "raised" /\ Len(stream) = 3
                /\ reported = NO_PARAMS_REQUEST_SIZE
                      => /\ frames[c].pc = "returned"
                         /\ frames[c].count = NO_PARAMS_REQUEST_SIZE
                         /\ requests[c].request_id = PyInt(stream[2].val)

\* A send() whose header writes reported 11 bytes has raised before the
\* payload of its Variables request.
C10_Witness ==
    \E c \in Callers :
        /\ SendEnded(c)
        /\ requests[c].cls = "Variables"
        /\ stream[1].n + stream[2].n + stream[3].n = 11
        /\ frames[c].pc = "raised"

============================================================================
